---- MODULE Spec2Model ----
(***************************************************************************)
(* A model of moxie-native's style cascade (src/style/mod.rs) and layout   *)
(* driver (src/layout/mod.rs).                                             *)
(*                                                                         *)
(* Option<T> is modelled as a sequence: << >> is None and <<v>> is Some(v).*)
(* Lengths are integers (the LogicalLength values used are integral).      *)
(***************************************************************************)
EXTENDS Integers, Sequences, FiniteSets, TLC

VARIABLES
    dom,        \* the node arena: Seq of [kind, parent, style, text]
    cv,         \* per node, the computed_values() cell: None or Some(ComputedValues)
    writes,     \* the nodes whose cell the last StyleEngine::update wrote, in order,
                \* kept until the dom changes
    engines,    \* the LayoutEngine values: the font collection each one's runtime
                \* holds, how often it built one, whether layout was called
                \* through it and whether a call found the collection memoised
    store,      \* where once! keeps its value: scope says whether the memo cell
                \* belongs to the engine's Runtime or to the process, collection
                \* is the cell of the process
    fontLoads,  \* how many times the embedded font was parsed in this process
    result,     \* the last layout call's arguments and the tree it returned,
                \* forgotten when the dom or a computed value changes
    kept,       \* an earlier layout call the observer remembered: the dom it
                \* ran on, its arguments, its tree, and whether layout has since
                \* run with another size or on another dom
    call,       \* the last operation and its arguments
    pending,    \* how many dom edits were made since the last cascade run
    aborted     \* a panic has ended the process

vars == <<dom, cv, writes, engines, store, fontLoads, result, kept, call, pending,
          aborted>>

(***************************************************************************)
(* Bounds of the model.                                                    *)
(***************************************************************************)
MaxNodes == 3
MaxEngines == 2
MaxEdits == 1
MaxKids == 3

None == << >>
Some(v) == <<v>>

Max(a, b) == IF a >= b THEN a ELSE b
Min(a, b) == IF a <= b THEN a ELSE b

(***************************************************************************)
(* src/style/mod.rs: the computed values.                                  *)
(***************************************************************************)
Sides(t, r, b, l) == [top |-> t, right |-> r, bottom |-> b, left |-> l]
AllSame(v) == Sides(v, v, v, v)

BlockValuesDefault ==
    [direction |-> "Vertical",
     margin |-> AllSame(0),
     padding |-> AllSame(0),
     width |-> None,
     height |-> None,
     min_width |-> None,
     min_height |-> None,
     max_width |-> None,
     max_height |-> None]

Block(b) == [kind |-> "Block", block |-> b]
Inline == [kind |-> "Inline"]

ComputedValuesDefault ==
    [display |-> Block(BlockValuesDefault),
     text_size |-> 16,
     text_color |-> "black",
     background_color |-> "clear",
     border_radius |-> 0,
     border_thickness |-> AllSame(0),
     border_color |-> "clear"]

Props == {"display", "text_size", "text_color", "background_color",
          "border_radius", "border_thickness", "border_color"}
Inherited == {"text_size", "text_color"}

(***************************************************************************)
(* The dom collaborator: elements ("view", "span") and raw text leaves.    *)
(* parent = 0 marks a root (a window).                                     *)
(***************************************************************************)
IsElement(d, n) == d[n].kind # "text"
Children(d, n) == SelectSeq([i \in 1..Len(d) |-> i], LAMBDA i : d[i].parent = n)
Roots(d) == {n \in 1..Len(d) : d[n].parent = 0}

RECURSIVE Subtree(_, _)
Subtree(d, n) ==
    {n} \cup UNION {Subtree(d, c) : c \in {i \in 1..Len(d) : d[i].parent = n}}

ElementsUnder(d, n) == {m \in Subtree(d, n) : IsElement(d, m)}

\* Element::create_computed_values: the defaults of the element's type.
CreateComputedValues(d, n) ==
    IF d[n].kind = "span"
    THEN [ComputedValuesDefault EXCEPT !.display = Inline]
    ELSE ComputedValuesDefault

(***************************************************************************)
(* CommonAttributes: every property is optional; apply overwrites the      *)
(* fields that are present.                                                *)
(***************************************************************************)
NoAttributes == [p \in Props |-> None]
Attrs(f) == [p \in Props |-> IF p \in DOMAIN f THEN Some(f[p]) ELSE None]

Apply(attributes, computed) ==
    [p \in Props |-> IF attributes[p] # None THEN attributes[p][1] ELSE computed[p]]

\* The selectors of the styles in use, fn(NodeRef) -> bool.
Selects(selector, d, n) ==
    CASE selector = "always" -> TRUE
      [] selector = "never" -> FALSE
      [] selector = "is_span" -> d[n].kind = "span"
      [] selector = "has_parent" -> d[n].parent # 0
      [] selector = "is_leaf" -> Children(d, n) = << >>

SubStyle(selector, f) == [selector |-> selector, attributes |-> Attrs(f)]

\* The static StyleData values the elements refer to.
Styles ==
    << [attributes |-> Attrs([text_size |-> 24, text_color |-> "red",
                              background_color |-> "red"]),
        sub_styles |-> << SubStyle("is_span", [text_size |-> 8, border_color |-> "red"]),
                          SubStyle("never", [text_color |-> "clear", border_radius |-> 2]),
                          SubStyle("has_parent", [text_size |-> 12,
                                                  background_color |-> "black"]) >>],
       [attributes |-> Attrs([display |-> Block([BlockValuesDefault EXCEPT
                                                   !.direction = "Horizontal",
                                                   !.width = Some(6),
                                                   !.padding = Sides(1, 0, 0, 1)]),
                              border_thickness |-> AllSame(1)]),
        sub_styles |-> << SubStyle("is_leaf", [display |-> Inline,
                                               text_color |-> "red"]) >>] >>

StyleOf(d, n) == IF d[n].style = 0 THEN None ELSE Some(Styles[d[n].style])

(***************************************************************************)
(* StyleEngine::update_style.  st = [cv, log] is the arena's cells and the *)
(* order of the writes.                                                    *)
(***************************************************************************)
\* Mutant of ApplySubStyles: the selector is not evaluated.
RECURSIVE ApplyEverySubStyle(_, _, _, _)
ApplyEverySubStyle(subs, d, n, computed) ==
    IF subs = << >> THEN computed
    ELSE ApplyEverySubStyle(Tail(subs), d, n, Apply(Head(subs).attributes, computed))

RECURSIVE ApplySubStyles(_, _, _, _)
ApplySubStyles(subs, d, n, computed) ==
    IF subs = << >> THEN computed
    ELSE ApplySubStyles(Tail(subs), d, n,
                        IF Selects(Head(subs).selector, d, n)
                        THEN Apply(Head(subs).attributes, computed)
                        ELSE computed)

\* Mutants of InheritFrom: the colour is not handed down; every field is.
InheritSizeOnly(parent, computed) ==
    IF parent # None
    THEN [computed EXCEPT !.text_size = parent[1].text_size]
    ELSE computed

InheritAll(parent, computed) ==
    IF parent # None THEN parent[1] ELSE computed

InheritFrom(parent, computed) ==
    IF parent # None
    THEN [computed EXCEPT !.text_size = parent[1].text_size,
                          !.text_color = parent[1].text_color]
    ELSE computed

ApplyStyle(style, d, n, computed) ==
    IF style # None
    THEN ApplySubStyles(style[1].sub_styles, d, n,
                        Apply(style[1].attributes, computed))
    ELSE computed

Computed(d, n, parent) ==
    ApplyStyle(StyleOf(d, n), d, n, InheritFrom(parent, CreateComputedValues(d, n)))

RECURSIVE UpdateStyle(_, _, _, _)
RECURSIVE UpdateChildren(_, _, _, _)
UpdateStyle(d, st, n, parent) ==
    LET computed == Computed(d, n, parent)
        st1 == [cv |-> [st.cv EXCEPT ![n] = Some(computed)],
                log |-> Append(st.log, n)]
    IN UpdateChildren(d, st1, Children(d, n), computed)

\* Mutant of UpdateChildren: the loop ends after the first child.
UpdateFirstChild(d, st, kids, computed) ==
    IF kids = << >> THEN st
    ELSE IF IsElement(d, Head(kids))
         THEN UpdateStyle(d, st, Head(kids), Some(computed))
         ELSE st

UpdateChildren(d, st, kids, computed) ==
    IF kids = << >> THEN st
    ELSE UpdateChildren(d,
                        IF IsElement(d, Head(kids))
                        THEN UpdateStyle(d, st, Head(kids), Some(computed))
                        ELSE st,
                        Tail(kids), computed)

\* StyleEngine::run_styling
RunStyling(d, cells, root) == UpdateStyle(d, [cv |-> cells, log |-> << >>], root, None)

(***************************************************************************)
(* src/layout/mod.rs: the layout tree.                                     *)
(***************************************************************************)
Size(w, h) == [width |-> w, height |-> h]
Point(x, y) == [x |-> x, y |-> y]

LayoutChild(position, layout) == [position |-> position, layout |-> layout]
Glyph(index, offset) == [index |-> index, offset |-> offset]
TextFragment(font, glyphs) == [font |-> font, glyphs |-> glyphs]
LayoutText(fragments, size) == [fragments |-> fragments, size |-> size]
RenderText(text, parent) == [kind |-> "Text", text |-> text, parent |-> parent]
RenderNode(n) == [kind |-> "Node", node |-> n]
LayoutTreeNode(size, margin, render, children) ==
    [size |-> size, margin |-> margin, render |-> render, children |-> children]

\* What a call that panicked leaves in place of its LayoutTreeNode.
Panic == [panic |-> TRUE]
IsPanic(r) == "panic" \in DOMAIN r

\* REGULAR_FONT and the collection built from it; id tells the allocations apart.
RegularFont == "ComicNeue-Regular"
NewCollection(id) == [id |-> id, family |-> RegularFont]

(***************************************************************************)
(* The font service: shaping gives every glyph of a word the advance of    *)
(* the text size, and the line metrics give a line the text size as height.*)
(***************************************************************************)
Advance(text_size) == text_size \div 8
LineHeight(text_size) == text_size

RECURSIVE SumSeq(_)
SumSeq(s) == IF s = << >> THEN 0 ELSE Head(s) + SumSeq(Tail(s))

RECURSIVE MaxSeq(_)
MaxSeq(s) == IF s = << >> THEN 0 ELSE Max(Head(s), MaxSeq(Tail(s)))

RECURSIVE Flatten(_)
Flatten(ss) == IF ss = << >> THEN << >> ELSE Head(ss) \o Flatten(Tail(ss))

OuterWidth(box) == box.margin.left + box.size.width + box.margin.right
OuterHeight(box) == box.margin.top + box.size.height + box.margin.bottom

\* The units the inline algorithm packs: a shaped word or a child's box.
WordUnit(word, text_size) ==
    [kind |-> "word", glyphs |-> word, width |-> Len(word) * Advance(text_size)]
BoxUnit(box) == [kind |-> "box", box |-> box, width |-> OuterWidth(box)]

\* The units of a text: its words, never split, whatever the width.
WordUnits(text, text_size) ==
    [i \in 1..Len(text) |-> WordUnit(text[i], text_size)]

RECURSIVE PackLines(_, _, _, _)

\* Mutant of PackLines: a line is closed once it is over the width, not before.
PackLinesLate(units, avail, lines, cur) ==
    IF units = << >>
    THEN IF cur = << >> THEN lines ELSE Append(lines, cur)
    ELSE LET u == Head(units)
             curW == SumSeq([i \in 1..Len(cur) |-> cur[i].width])
         IN IF cur # << >> /\ curW > avail
            THEN PackLines(Tail(units), avail, Append(lines, cur), <<u>>)
            ELSE PackLines(Tail(units), avail, lines, Append(cur, u))

\* Greedy packing: a unit opens a new line when it would exceed the available
\* width, and a unit wider than the line stands alone on its line.
PackLines(units, avail, lines, cur) ==
    IF units = << >>
    THEN IF cur = << >> THEN lines ELSE Append(lines, cur)
    ELSE LET u == Head(units)
             curW == SumSeq([i \in 1..Len(cur) |-> cur[i].width])
         IN IF cur # << >> /\ curW + u.width > avail
            THEN PackLines(Tail(units), avail, Append(lines, cur), <<u>>)
            ELSE PackLines(Tail(units), avail, lines, Append(cur, u))

LineWidth(line) == SumSeq([i \in 1..Len(line) |-> line[i].width])

\* x of unit k of a line: the widths of the units before it.
UnitX(line, k) == SumSeq([i \in 1..(k - 1) |-> line[i].width])

LineGlyphs(line, y, text_size) ==
    Flatten([k \in 1..Len(line) |->
               IF line[k].kind = "word"
               THEN [g \in 1..Len(line[k].glyphs) |->
                       Glyph(line[k].glyphs[g],
                             Point(UnitX(line, k) + (g - 1) * Advance(text_size), y))]
               ELSE << >>])

LineBoxes(line, y) ==
    Flatten([k \in 1..Len(line) |->
               IF line[k].kind = "box"
               THEN << LayoutChild(Point(UnitX(line, k) + line[k].box.margin.left,
                                         y + line[k].box.margin.top),
                                   line[k].box) >>
               ELSE << >>])

\* The box of packed lines: one TextFragment per line, lines stacked.
LinesBox(lines, collection, text_size, parent) ==
    LET y(i) == (i - 1) * LineHeight(text_size)
    IN LayoutTreeNode(
           Size(MaxSeq([i \in 1..Len(lines) |-> LineWidth(lines[i])]),
                Len(lines) * LineHeight(text_size)),
           AllSame(0),
           RenderText(LayoutText([i \in 1..Len(lines) |->
                                    TextFragment(collection.family,
                                                 LineGlyphs(lines[i], y(i), text_size))],
                                 text_size),
                      parent),
           Flatten([i \in 1..Len(lines) |-> LineBoxes(lines[i], y(i))]))

\* text::layout_text: a raw text child, styled by the element that holds it.
LayoutTextNode(d, collection, t, parent, values, size) ==
    LinesBox(PackLines(WordUnits(d[t].text, values.text_size),
                       size.width, << >>, << >>),
             collection, values.text_size, parent)

(***************************************************************************)
(* The block algorithm.  acc = [off, cross, kids, panic]: the running      *)
(* offset along the direction, the largest outer extent across it, the     *)
(* children placed so far, and whether a child's layout panicked.          *)
(***************************************************************************)
Clamp(v, lo, hi) ==
    LET a == IF lo # None THEN Max(v, lo[1]) ELSE v
    IN IF hi # None THEN Min(a, hi[1]) ELSE a

RECURSIVE Dispatch(_, _, _, _, _)
RECURSIVE LayoutBlock(_, _, _, _, _, _, _)
RECURSIVE BlockChildren(_, _, _, _, _, _, _, _, _)
RECURSIVE LayoutInline(_, _, _, _, _, _)
RECURSIVE InlineUnits(_, _, _, _, _, _, _)

\* Mutants of Dispatch: an empty cell is read as the default values; every
\* element is laid out inline.
DispatchOrDefault(d, cells, collection, n, size) ==
    LET values == IF cells[n] = None THEN ComputedValuesDefault ELSE cells[n][1]
    IN IF values.display.kind = "Block"
       THEN LayoutBlock(d, cells, collection, n, values, values.display.block, size)
       ELSE LayoutInline(d, cells, collection, n, values, size)

DispatchAlwaysInline(d, cells, collection, n, size) ==
    IF cells[n] = None
    THEN Panic
    ELSE LayoutInline(d, cells, collection, n, cells[n][1], size)

\* LayoutEngine::run_layout, lines 100-106: the cell is unwrapped and the
\* display type chooses the algorithm.
Dispatch(d, cells, collection, n, size) ==
    IF cells[n] = None
    THEN Panic
    ELSE LET values == cells[n][1]
         IN IF values.display.kind = "Block"
            THEN LayoutBlock(d, cells, collection, n, values, values.display.block, size)
            ELSE LayoutInline(d, cells, collection, n, values, size)

\* Mutant of BlockChildren: the offset of a child is the extent of the child
\* before it alone, not the running sum.
BlockChildrenFromLast(d, cells, collection, n, values, block, inner, kids, acc) ==
    IF kids = << >> \/ acc.panic THEN acc
    ELSE LET vertical == block.direction = "Vertical"
             c == Head(kids)
             avail == IF vertical
                      THEN Size(inner.width,
                                inner.height - (acc.off - block.padding.top))
                      ELSE Size(inner.width - (acc.off - block.padding.left),
                                inner.height)
             box == IF IsElement(d, c)
                    THEN Dispatch(d, cells, collection, c, avail)
                    ELSE LayoutTextNode(d, collection, c, n, values, avail)
         IN IF IsPanic(box)
            THEN [acc EXCEPT !.panic = TRUE]
            ELSE BlockChildren(d, cells, collection, n, values, block, inner, Tail(kids),
                   IF vertical
                   THEN [off |-> block.padding.top + OuterHeight(box),
                         cross |-> Max(acc.cross, OuterWidth(box)),
                         kids |-> Append(acc.kids,
                                    LayoutChild(Point(block.padding.left,
                                                      acc.off + box.margin.top), box)),
                         panic |-> FALSE]
                   ELSE [off |-> block.padding.left + OuterWidth(box),
                         cross |-> Max(acc.cross, OuterHeight(box)),
                         kids |-> Append(acc.kids,
                                    LayoutChild(Point(acc.off + box.margin.left,
                                                      block.padding.top), box)),
                         panic |-> FALSE])

BlockChildren(d, cells, collection, n, values, block, inner, kids, acc) ==
    IF kids = << >> \/ acc.panic THEN acc
    ELSE LET vertical == block.direction = "Vertical"
             c == Head(kids)
             avail == IF vertical
                      THEN Size(inner.width,
                                inner.height - (acc.off - block.padding.top))
                      ELSE Size(inner.width - (acc.off - block.padding.left),
                                inner.height)
             box == IF IsElement(d, c)
                    THEN Dispatch(d, cells, collection, c, avail)
                    ELSE LayoutTextNode(d, collection, c, n, values, avail)
         IN IF IsPanic(box)
            THEN [acc EXCEPT !.panic = TRUE]
            ELSE BlockChildren(d, cells, collection, n, values, block, inner, Tail(kids),
                   IF vertical
                   THEN [off |-> acc.off + OuterHeight(box),
                         cross |-> Max(acc.cross, OuterWidth(box)),
                         kids |-> Append(acc.kids,
                                    LayoutChild(Point(block.padding.left,
                                                      acc.off + box.margin.top), box)),
                         panic |-> FALSE]
                   ELSE [off |-> acc.off + OuterWidth(box),
                         cross |-> Max(acc.cross, OuterHeight(box)),
                         kids |-> Append(acc.kids,
                                    LayoutChild(Point(acc.off + box.margin.left,
                                                      block.padding.top), box)),
                         panic |-> FALSE])

LayoutBlock(d, cells, collection, n, values, block, size) ==
    LET vertical == block.direction = "Vertical"
        outer == Size(IF block.width # None THEN block.width[1] ELSE size.width,
                      IF block.height # None THEN block.height[1] ELSE size.height)
        inner == Size(outer.width - block.padding.left - block.padding.right,
                      outer.height - block.padding.top - block.padding.bottom)
        start == IF vertical THEN block.padding.top ELSE block.padding.left
        acc == BlockChildren(d, cells, collection, n, values, block, inner,
                             Children(d, n),
                             [off |-> start, cross |-> 0, kids |-> << >>,
                              panic |-> FALSE])
        along == acc.off - start
        width == IF block.width # None THEN block.width[1]
                 ELSE Clamp(IF vertical THEN acc.cross ELSE along,
                            block.min_width, block.max_width)
        height == IF block.height # None THEN block.height[1]
                  ELSE Clamp(IF vertical THEN along ELSE acc.cross,
                             block.min_height, block.max_height)
    IN IF acc.panic THEN Panic
       ELSE LayoutTreeNode(Size(width, height), block.margin, RenderNode(n), acc.kids)

(***************************************************************************)
(* The inline algorithm: the words of the text children and the boxes of   *)
(* the element children are the units packed into lines.                   *)
(***************************************************************************)
InlineUnits(d, cells, collection, values, size, kids, acc) ==
    IF kids = << >> \/ acc.panic THEN acc
    ELSE LET c == Head(kids)
         IN IF ~IsElement(d, c)
            THEN InlineUnits(d, cells, collection, values, size, Tail(kids),
                   [acc EXCEPT !.units = @ \o WordUnits(d[c].text, values.text_size)])
            ELSE LET box == Dispatch(d, cells, collection, c, size)
                 IN IF IsPanic(box)
                    THEN [acc EXCEPT !.panic = TRUE]
                    ELSE InlineUnits(d, cells, collection, values, size, Tail(kids),
                           [acc EXCEPT !.units = Append(@, BoxUnit(box))])

LayoutInline(d, cells, collection, n, values, size) ==
    LET acc == InlineUnits(d, cells, collection, values, size, Children(d, n),
                           [units |-> << >>, panic |-> FALSE])
    IN IF acc.panic THEN Panic
       ELSE LinesBox(PackLines(acc.units, size.width, << >>, << >>),
                     collection, values.text_size, n)

(***************************************************************************)
(* The inputs the environment chooses from.                                *)
(***************************************************************************)
EmptyText == << >>
OneWord == << <<1, 2, 3>> >>
TwoWords == << <<3>>, <<1, 2>> >>
Texts == {EmptyText, OneWord, TwoWords}
Sizes == {Size(0, 0), Size(4, 40), Size(12, 40)}
StyleChoices == 0..Len(Styles)

Node(kind, parent, style, text) ==
    [kind |-> kind, parent |-> parent, style |-> style, text |-> text]

NoCall == [op |-> "none", root |-> 0, engine |-> 0, size |-> Size(0, 0)]

\* LayoutEngine::new: the engine's runtime has run nothing yet.
FreshEngine == [collection |-> None, loads |-> 0, used |-> FALSE, reused |-> FALSE]

\* Where the value of once! lives is decided by moxie's Runtime, which is not
\* part of this repository: the cell is either the engine's own runtime's or
\* one cell of the process.  Both outcomes are modelled.
MemoScopes == {"engine", "process"}
NewStore(scope) == [scope |-> scope, collection |-> None]

InitWith(scope) ==
    /\ dom = << Node("view", 0, 0, << >>) >>
    /\ cv = << None >>
    /\ writes = << >>
    /\ engines = << >>
    /\ store = NewStore(scope)
    /\ fontLoads = 0
    /\ result = None
    /\ kept = None
    /\ call = NoCall
    /\ pending = 0
    /\ aborted = FALSE

Init == \E scope \in MemoScopes : InitWith(scope)

(***************************************************************************)
(* The dom collaborator builds and restyles the tree between frames.       *)
(***************************************************************************)
AddElement(parent, kind, style) ==
    /\ ~aborted
    /\ Len(dom) < MaxNodes
    /\ pending < MaxEdits
    /\ pending' = pending + 1
    /\ dom' = Append(dom, Node(kind, parent, style, << >>))
    /\ cv' = Append(cv, None)
    /\ call' = [NoCall EXCEPT !.op = "add"]
    /\ result' = None
    /\ writes' = << >>
    /\ UNCHANGED <<engines, store, fontLoads, kept, aborted>>

AddText(parent, text) ==
    /\ ~aborted
    /\ Len(dom) < MaxNodes
    /\ pending < MaxEdits
    /\ pending' = pending + 1
    /\ dom' = Append(dom, Node("text", parent, 0, text))
    /\ cv' = Append(cv, None)
    /\ call' = [NoCall EXCEPT !.op = "add"]
    /\ result' = None
    /\ writes' = << >>
    /\ UNCHANGED <<engines, store, fontLoads, kept, aborted>>

SetStyle(n, style) ==
    /\ ~aborted
    /\ dom[n].style # style
    /\ pending < MaxEdits
    /\ pending' = pending + 1
    /\ dom' = [dom EXCEPT ![n].style = style]
    /\ call' = [NoCall EXCEPT !.op = "style"]
    /\ result' = None
    /\ writes' = << >>
    /\ UNCHANGED <<cv, engines, store, fontLoads, kept, aborted>>

(***************************************************************************)
(* StyleEngine::update                                                     *)
(***************************************************************************)
Update(root) ==
    LET st == RunStyling(dom, cv, root)
    IN /\ ~aborted
       /\ cv' = st.cv
       /\ writes' = st.log
       /\ call' = [NoCall EXCEPT !.op = "update", !.root = root]
       /\ result' = IF st.cv = cv THEN result ELSE None
       /\ pending' = 0
       /\ UNCHANGED <<dom, engines, store, fontLoads, kept, aborted>>

(***************************************************************************)
(* LayoutEngine::new                                                       *)
(***************************************************************************)
NewEngine ==
    /\ ~aborted
    /\ Len(engines) < MaxEngines
    /\ engines' = Append(engines, FreshEngine)
    /\ call' = [NoCall EXCEPT !.op = "new", !.engine = Len(engines) + 1]
    /\ UNCHANGED <<dom, cv, writes, store, fontLoads, result, kept, pending, aborted>>

(***************************************************************************)
(* LayoutEngine::layout: run_once runs run_layout.  once! builds the font  *)
(* collection when its memo cell holds none, and keeps it there.           *)
(***************************************************************************)
Once(engine, st, loads) ==
    LET cell == IF st.scope = "engine" THEN engine.collection ELSE st.collection
        built == Some(NewCollection(loads + 1))
    IN IF cell = None
       THEN [engine |-> [engine EXCEPT !.collection = built, !.loads = @ + 1,
                                       !.used = TRUE],
             store |-> IF st.scope = "engine" THEN st
                       ELSE [st EXCEPT !.collection = built]]
       ELSE [engine |-> [engine EXCEPT !.collection = cell, !.used = TRUE,
                                       !.reused = TRUE],
             store |-> st]

RunLayout(d, cells, engine, root, size) ==
    Dispatch(d, cells, engine.collection[1], root, size)

\* self.runtime.run_once() under the node and size of the call.
RunOnce(e, root, size) ==
    LET m == Once(engines[e], store, fontLoads)
        out == RunLayout(dom, cv, m.engine, root, size)
    IN /\ ~aborted
       /\ engines' = [engines EXCEPT ![e] = m.engine]
       /\ store' = m.store
       /\ fontLoads' = fontLoads + (m.engine.loads - engines[e].loads)
       /\ call' = [op |-> "layout", root |-> root, engine |-> e, size |-> size]
       /\ aborted' = IsPanic(out)
       /\ result' = IF IsPanic(out) THEN None
                     ELSE Some([root |-> root, size |-> size, box |-> out])
       /\ kept' = IF kept # None /\ (kept[1].dom # dom \/ kept[1].size # size)
                  THEN Some([kept[1] EXCEPT !.between = TRUE])
                  ELSE kept

\* A layout that takes the computed values out of the root's cell
\* (Cell::take) where the code copies them (Cell::get).
LayoutTakingValues(e, root, size) ==
    /\ RunOnce(e, root, size)
    /\ cv' = [cv EXCEPT ![root] = None]
    /\ UNCHANGED <<dom, writes, pending>>

\* layout reads the tree and its cells and leaves them as they are.
Layout(e, root, size) ==
    /\ RunOnce(e, root, size)
    /\ UNCHANGED <<dom, cv, writes, pending>>

\* The observer remembers one layout call, made on a freshly styled tree.
Remember ==
    /\ ~aborted
    /\ call.op = "layout" /\ result # None /\ pending = 0
    /\ kept = None
    /\ kept' = Some([dom |-> dom, root |-> result[1].root, size |-> result[1].size,
                     box |-> result[1].box, between |-> FALSE])
    /\ UNCHANGED <<dom, cv, writes, engines, store, fontLoads, result, call, pending,
                   aborted>>

Elements == {n \in 1..Len(dom) : IsElement(dom, n)}

(***************************************************************************)
(* The pipeline on one window: restyle, cascade, layout, over any number   *)
(* of engines.                                                             *)
(***************************************************************************)
Next ==
    \/ \E s \in StyleChoices : SetStyle(1, s)
    \/ Update(1)
    \/ NewEngine
    \/ \E e \in 1..Len(engines), z \in Sizes : Layout(e, 1, z)

Spec == Init /\ [][Next]_vars

(***************************************************************************)
(* The cascade over every tree the dom collaborator can build.             *)
(***************************************************************************)
NextStyle ==
    \/ \E p \in Elements, k \in {"view", "span"}, s \in StyleChoices :
         AddElement(p, k, s)
    \/ \E p \in Elements : AddText(p, OneWord)
    \/ \E n \in Elements, s \in StyleChoices : SetStyle(n, s)
    \/ \E r \in Roots(dom) : Update(r)

SpecStyle == InitWith("engine") /\ [][NextStyle]_vars

(***************************************************************************)
(* The layout algorithms over drawn inputs: a root element whose computed  *)
(* values are drawn from RootChoices, holding up to MaxKids children drawn *)
(* from the kids of its display type, laid out by one engine for every     *)
(* size of Sizes.                                                          *)
(***************************************************************************)
BlockOf(direction, width, height, lo, hi, padding, margin) ==
    [ComputedValuesDefault EXCEPT !.display =
        Block([direction |-> direction, margin |-> margin, padding |-> padding,
               width |-> width, height |-> height,
               min_width |-> lo, min_height |-> None,
               max_width |-> hi, max_height |-> None])]

InlineOf(text_size) ==
    [ComputedValuesDefault EXCEPT !.display = Inline, !.text_size = text_size]

\* The root's cell: never published, inline, or a block container.
RootChoices ==
    {None, Some(InlineOf(16)), Some(InlineOf(8)),
     Some(BlockOf("Vertical", Some(0), Some(0), None, None, AllSame(0), AllSame(0)))}
    \cup {Some(BlockOf(dir, w, None, c[1], c[2], AllSame(0), AllSame(0))) :
            dir \in {"Vertical", "Horizontal"},
            w \in {None, Some(6)},
            c \in {<<None, None>>, <<Some(7), Some(9)>>}}
    \cup {Some(BlockOf("Vertical", None, None, None, None, Sides(1, 2, 0, 1), AllSame(0))),
          Some(BlockOf("Horizontal", Some(6), None, None, None, Sides(1, 2, 0, 1),
                       AllSame(0)))}

SmallView == Some(BlockOf("Vertical", Some(2), Some(1), None, None,
                          AllSame(0), AllSame(0)))
BigView == Some(BlockOf("Vertical", Some(8), Some(3), None, None,
                        AllSame(0), Sides(1, 0, 2, 1)))

\* A child of a block container: raw text, or an element that holds nothing
\* and is unpublished, small, or large with margins.
BlockKids ==
    {[kind |-> "text", text |-> OneWord]}
    \cup {[kind |-> "view", cell |-> c] : c \in {None, SmallView, BigView}}

\* A child of an inline element: raw text, a span holding text, or a box.
InlineKids ==
    {[kind |-> "text", text |-> t] : t \in Texts}
    \cup {[kind |-> "span", text |-> TwoWords], [kind |-> "view", cell |-> BigView]}

KidsOf(root) ==
    IF root # None /\ root[1].display.kind = "Inline" THEN InlineKids ELSE BlockKids

RECURSIVE Scene(_, _)
Scene(kids, sc) ==
    IF kids = << >> THEN sc
    ELSE LET k == Head(kids)
             n == Len(sc.dom) + 1
         IN Scene(Tail(kids),
                  CASE k.kind = "text" ->
                         [dom |-> Append(sc.dom, Node("text", 1, 0, k.text)),
                          cv |-> Append(sc.cv, None)]
                    [] k.kind = "view" ->
                         [dom |-> Append(sc.dom, Node("view", 1, 0, << >>)),
                          cv |-> Append(sc.cv, k.cell)]
                    [] k.kind = "span" ->
                         [dom |-> sc.dom \o << Node("span", 1, 0, << >>),
                                               Node("text", n, 0, k.text) >>,
                          cv |-> sc.cv \o << Some(InlineOf(16)), None >>])

KidLists(choices) == UNION {[1..k -> choices] : k \in 0..MaxKids}

InitLayout ==
    /\ \E root \in RootChoices :
         \E kids \in KidLists(KidsOf(root)) :
            LET sc == Scene(kids, [dom |-> << Node("view", 0, 0, << >>) >>,
                                   cv |-> << root >>])
            IN dom = sc.dom /\ cv = sc.cv
    /\ writes = << >>
    /\ engines = << FreshEngine >>
    /\ store = NewStore("engine")
    /\ fontLoads = 0
    /\ result = None
    /\ kept = None
    /\ call = NoCall
    /\ pending = 0
    /\ aborted = FALSE

NextLayout == \E z \in Sizes : Layout(1, 1, z)

SpecLayout == InitLayout /\ [][NextLayout]_vars

(***************************************************************************)
(* Restyle, cascade and layout of one window through one engine, with an   *)
(* observer that remembers one earlier layout call.                        *)
(***************************************************************************)
RelayoutDoms ==
    { << Node("view", 0, 0, << >>), Node("text", 1, 0, TwoWords) >>,
      << Node("view", 0, 0, << >>), Node("span", 1, 0, << >>),
         Node("text", 2, 0, TwoWords), Node("view", 1, 0, << >>) >> }

InitRelayout ==
    /\ dom \in RelayoutDoms
    /\ cv = [n \in 1..Len(dom) |-> None]
    /\ writes = << >>
    /\ engines = << FreshEngine >>
    /\ store = NewStore("engine")
    /\ fontLoads = 0
    /\ result = None
    /\ kept = None
    /\ call = NoCall
    /\ pending = 0
    /\ aborted = FALSE

NextRelayout ==
    \/ \E n \in Elements \cap {1, 2}, s \in StyleChoices : SetStyle(n, s)
    \/ Update(1)
    \/ \E z \in Sizes : Layout(1, 1, z)
    \/ Remember

SpecRelayout == InitRelayout /\ [][NextRelayout]_vars

(***************************************************************************)
(* Properties of the cascade, checked under SpecStyle.                     *)
(***************************************************************************)
Updated == call.op = "update"

\* The attribute sets that apply to element n, in the order of application:
\* the style's own, then those of the sub-styles whose selector matches.
Sources(d, n) ==
    IF d[n].style = 0 THEN << >>
    ELSE LET style == Styles[d[n].style]
             matching == SelectSeq(style.sub_styles,
                                   LAMBDA sub : Selects(sub.selector, d, n))
         IN << style.attributes >> \o [i \in 1..Len(matching) |-> matching[i].attributes]

Setters(d, n, p) == {i \in 1..Len(Sources(d, n)) : Sources(d, n)[i][p] # None}

\* What element n starts from: the type's defaults, and for the two
\* inheritable properties the parent's published value.
StartValue(d, cells, n, p) ==
    IF p \in Inherited /\ d[n].parent # 0
    THEN cells[d[n].parent][1][p]
    ELSE CreateComputedValues(d, n)[p]

\* C1: after update, text_size and text_color of every element of the subtree
\* equal the parent's resolved value (16 and black at the root) unless the
\* element's own style or one of its matching sub-styles sets the property.
C1_Inheritance ==
    Updated =>
        \A n \in ElementsUnder(dom, call.root) : \A p \in Inherited :
            Setters(dom, n, p) = {} =>
                cv[n][1][p] = IF dom[n].parent = 0
                              THEN ComputedValuesDefault[p]
                              ELSE cv[dom[n].parent][1][p]

C1_Witness ==
    /\ Updated
    /\ \E n \in ElementsUnder(dom, call.root) :
         /\ dom[n].parent # 0
         /\ dom[dom[n].parent].parent # 0
         /\ \A p \in Inherited : Setters(dom, n, p) = {}
         /\ cv[n][1].text_size = 12
         /\ cv[n][1].text_color = "red"

\* C2: the resolved value of every property of a styled element is the one
\* given by the last source that sets it, in the order base attributes, then
\* matching sub-styles in declaration order; a property no source sets keeps
\* the value the element started from.
C2_LastSourceWins ==
    Updated =>
        \A n \in ElementsUnder(dom, call.root) : \A p \in Props :
            dom[n].style # 0 =>
                LET setters == Setters(dom, n, p)
                    last == CHOOSE i \in setters : \A j \in setters : j <= i
                IN cv[n][1][p] = IF setters = {}
                                 THEN StartValue(dom, cv, n, p)
                                 ELSE Sources(dom, n)[last][p][1]

C2_Witness ==
    /\ Updated
    /\ \E n \in ElementsUnder(dom, call.root) :
         /\ dom[n].style = 1
         /\ Len(Sources(dom, n)) = 3
         /\ Cardinality(Setters(dom, n, "text_size")) = 3
         /\ cv[n][1].text_size = 12
         /\ cv[n][1].border_color = "red"
         /\ cv[n][1].text_color = "red"
         /\ cv[n][1].border_radius = 0

Position(log, n) == CHOOSE i \in 1..Len(log) : log[i] = n

\* C9: after update(root) every element of the subtree of root holds a value,
\* written by this call exactly once, a parent before its children.
C9_EveryElementPublished ==
    Updated =>
        LET elements == ElementsUnder(dom, call.root)
        IN /\ \A n \in elements : cv[n] # None
           /\ {writes[i] : i \in 1..Len(writes)} = elements
           /\ Len(writes) = Cardinality(elements)
           /\ \A n \in elements \ {call.root} :
                Position(writes, dom[n].parent) < Position(writes, n)

C9_Witness ==
    /\ Updated
    /\ Len(writes) = 3
    /\ \E n \in 1..Len(dom) : IsElement(dom, n) /\ dom[n].parent > 1

\* What the element's type and its own style alone give it.
OwnValues(d, n) == ApplyStyle(StyleOf(d, n), d, n, CreateComputedValues(d, n))

\* C10: display, background_color, border_radius, border_thickness and
\* border_color of a non-root element are the type's defaults changed only by
\* the element's own style, whatever the parent's values are.
C10_OnlyTextInherits ==
    Updated =>
        \A n \in ElementsUnder(dom, call.root) : \A p \in Props \ Inherited :
            dom[n].parent # 0 => cv[n][1][p] = OwnValues(dom, n)[p]

C10_Witness ==
    /\ Updated
    /\ \E n \in ElementsUnder(dom, call.root) :
         /\ dom[n].parent # 0
         /\ dom[n].style = 0
         /\ cv[dom[n].parent][1].display.kind = "Block"
         /\ cv[dom[n].parent][1].display.block.width = Some(6)
         /\ cv[dom[n].parent][1].border_thickness = AllSame(1)
         /\ cv[n][1].display = CreateComputedValues(dom, n).display
         /\ cv[n][1].border_thickness = AllSame(0)

(***************************************************************************)
(* Properties of the font collection, checked under Spec.                  *)
(***************************************************************************)
Used == {e \in 1..Len(engines) : engines[e].used}

\* C4: over all layout calls of the process, through any number of engines,
\* the font is parsed once, in the first layout call, and every call uses
\* that one collection.
C4_OncePerProcess ==
    /\ fontLoads = IF Used = {} THEN 0 ELSE 1
    /\ \A e1, e2 \in Used : engines[e1].collection = engines[e2].collection

\* Two engines, each laid out through, with the memo cell in the engine's
\* own runtime: the font was parsed twice.
C4_Witness ==
    /\ call.op = "layout" /\ ~aborted
    /\ store.scope = "engine"
    /\ Used = {1, 2}
    /\ engines[1].collection # engines[2].collection
    /\ fontLoads = 2

(***************************************************************************)
(* Properties of layout, checked under SpecLayout.                         *)
(***************************************************************************)
LaidOut == call.op = "layout" /\ result # None
Tree == result[1].box

\* C3: layout of a root whose cell was never published aborts and returns no
\* tree; when every element of the subtree is published it returns one, also
\* for containers of no size, empty text and the default values.
C3_UnpublishedRootIsFatal ==
    call.op = "layout" =>
        /\ cv[call.root] = None => aborted /\ result = None
        /\ (\A n \in ElementsUnder(dom, call.root) : cv[n] # None) =>
               ~aborted /\ result # None /\ ~IsPanic(Tree)

C3_Witness ==
    /\ call.op = "layout"
    /\ cv[call.root] = None
    /\ Len(dom) > 1
    /\ aborted

C3_DegenerateWitness ==
    /\ LaidOut
    /\ call.size = Size(0, 0)
    /\ \E n \in 1..Len(dom) : dom[n].kind = "text" /\ dom[n].text = EmptyText
    /\ Tree.size = Size(0, 0)

(***************************************************************************)
(* Repeated layout, checked under SpecRelayout.                            *)
(***************************************************************************)
\* The call just made has the tree, the styles and the size of the
\* remembered call, and the cascade has run since the last edit.
SameAsKept ==
    /\ call.op = "layout" /\ pending = 0
    /\ kept # None
    /\ kept[1].dom = dom /\ kept[1].root = call.root /\ kept[1].size = call.size

RootBlock == cv[call.root][1].display.block
RootIsBlock == cv[call.root] # None /\ cv[call.root][1].display.kind = "Block"
RootIsInline == cv[call.root] # None /\ cv[call.root][1].display.kind = "Inline"

\* C6: a block container with explicit width W gets a tree of width W for
\* every list of children and available size; with width auto the width is
\* within min_width and max_width.
C6_ExplicitWidth ==
    LaidOut /\ RootIsBlock =>
        IF RootBlock.width # None
        THEN Tree.size.width = RootBlock.width[1]
        ELSE /\ RootBlock.min_width # None => Tree.size.width >= RootBlock.min_width[1]
             /\ RootBlock.max_width # None => Tree.size.width <= RootBlock.max_width[1]

C6_Witness ==
    /\ LaidOut /\ RootIsBlock
    /\ RootBlock.width = Some(6)
    /\ RootBlock.min_width = Some(7)
    /\ \E k \in 1..Len(Tree.children) : OuterWidth(Tree.children[k].layout) > 6
    /\ \E k \in 1..Len(Tree.children) : OuterWidth(Tree.children[k].layout) < 6
    /\ Tree.size.width = 6

\* The tree of child c of element n: an element's own node, or text of n.
IsTreeOf(tree, d, n, c) ==
    IF IsElement(d, c)
    THEN IF tree.render.kind = "Node" THEN tree.render.node = c
         ELSE tree.render.parent = c
    ELSE tree.render.kind = "Text" /\ tree.render.parent = n

HeightsBefore(children, k) == SumSeq([j \in 1..(k - 1) |-> children[j].layout.size.height])

\* C7: in a vertical block container with zero padding whose children have
\* zero margins the children are placed in child order, child i at the sum
\* of the heights of the children before it.
C7_VerticalStacking ==
    (/\ LaidOut /\ RootIsBlock
     /\ RootBlock.direction = "Vertical"
     /\ RootBlock.padding = AllSame(0)
     /\ \A k \in 1..Len(Tree.children) : Tree.children[k].layout.margin = AllSame(0))
    => LET kids == Children(dom, call.root)
       IN /\ Len(Tree.children) = Len(kids)
          /\ \A k \in 1..Len(Tree.children) :
               /\ IsTreeOf(Tree.children[k].layout, dom, call.root, kids[k])
               /\ Tree.children[k].position.y = HeightsBefore(Tree.children, k)
          /\ \A j, k \in 1..Len(Tree.children) :
               j < k => Tree.children[j].position.y
                          + Tree.children[j].layout.size.height
                        <= Tree.children[k].position.y

C7_Witness ==
    /\ LaidOut /\ RootIsBlock
    /\ RootBlock.direction = "Vertical"
    /\ RootBlock.padding = AllSame(0)
    /\ Len(Tree.children) = 3
    /\ \A k \in 1..3 : Tree.children[k].layout.margin = AllSame(0)
    /\ Tree.children[1].layout.size.height = 1
    /\ Tree.children[2].layout.size.height = 16
    /\ Tree.children[3].layout.size.height = 1
    /\ Tree.children[2].position.y = 1
    /\ Tree.children[3].position.y = 17

(***************************************************************************)
(* The lines of an inline element's tree, read back from the tree: line i  *)
(* is fragment i and the child trees placed at its height.                 *)
(***************************************************************************)
Fragments(tree) == tree.render.text.fragments
LineTop(tree, i) == (i - 1) * LineHeight(tree.render.text.size)

BoxesOnLine(tree, i) ==
    {k \in 1..Len(tree.children) :
        tree.children[k].position.y - tree.children[k].layout.margin.top
            = LineTop(tree, i)}

\* The right edge of the rightmost glyph or child tree of line i.
LineExtent(tree, i) ==
    LET glyphs == Fragments(tree)[i].glyphs
        edges == {glyphs[g].offset.x + Advance(tree.render.text.size) :
                    g \in 1..Len(glyphs)}
                 \cup {tree.children[k].position.x
                         - tree.children[k].layout.margin.left
                         + OuterWidth(tree.children[k].layout) :
                       k \in BoxesOnLine(tree, i)}
    IN IF edges = {} THEN 0 ELSE CHOOSE m \in edges : \A x \in edges : x <= m

\* The units of element n in child order, as [glyphs, boxes, width]: every
\* word of its text children and the tree of every element child.
RECURSIVE UnitsOf(_, _, _, _)
UnitsOf(d, kids, text_size, trees) ==
    IF kids = << >> THEN << >>
    ELSE IF IsElement(d, Head(kids))
         THEN << [glyphs |-> 0, boxes |-> 1,
                  width |-> OuterWidth(Head(trees).layout)] >>
              \o UnitsOf(d, Tail(kids), text_size, Tail(trees))
         ELSE LET text == d[Head(kids)].text
              IN [i \in 1..Len(text) |->
                    [glyphs |-> Len(text[i]), boxes |-> 0,
                     width |-> Len(text[i]) * Advance(text_size)]]
                 \o UnitsOf(d, Tail(kids), text_size, trees)

\* How many of the units line i holds, for every line: the units are taken
\* in order, each line taking the glyphs of its fragment and its child trees.
\* 0 marks a line whose content is no run of the units.
RECURSIVE UnitsPerLine(_, _, _)
UnitsPerLine(tree, units, i) ==
    IF i > Len(Fragments(tree)) THEN << >>
    ELSE LET fits == {k \in 1..Len(units) :
                        /\ SumSeq([j \in 1..k |-> units[j].glyphs])
                             = Len(Fragments(tree)[i].glyphs)
                        /\ SumSeq([j \in 1..k |-> units[j].boxes])
                             = Cardinality(BoxesOnLine(tree, i))}
         IN IF fits = {} THEN << 0 >>
            ELSE LET k == CHOOSE k \in fits : TRUE
                 IN << k >> \o UnitsPerLine(tree, SubSeq(units, k + 1, Len(units)), i + 1)

RootUnits ==
    UnitsOf(dom, Children(dom, call.root), cv[call.root][1].text_size, Tree.children)

ShapedWidth(units) == SumSeq([i \in 1..Len(units) |-> units[i].width])

\* Every line is made of whole units, all units are placed, and a line wider
\* than the available width holds a single unit.
LinesFit ==
    LET perLine == UnitsPerLine(Tree, RootUnits, 1)
    IN /\ Len(perLine) = Len(Fragments(Tree))
       /\ SumSeq(perLine) = Len(RootUnits)
       /\ \A i \in 1..Len(perLine) :
            /\ perLine[i] >= 1
            /\ LineExtent(Tree, i) <= call.size.width \/ perLine[i] = 1

====
